---------------------------- MODULE Spec2Model ----------------------------
(***************************************************************************)
(* CantinaBot (src/CantinaBot.py): the menu cache, the fetch-render        *)
(* pipeline, the manual menu command and the auto-post scheduler.          *)
(*                                                                         *)
(* Time is the Romanian wall clock in seconds since Monday 2024-01-01      *)
(* 00:00; a date is a day number since 2024-01-01, so that a date's        *)
(* weekday() is day % 7 (0 = Monday ... 6 = Sunday).  Every datetime of    *)
(* the program comes from datetime.now(ROMANIA_TZ) or from arithmetic on   *)
(* such values, which Python does on the wall clock.                       *)
(*                                                                         *)
(* The program runs on one asyncio event loop: a coroutine runs without    *)
(* interruption until it suspends.  The two asyncio locks are never held   *)
(* across a suspension, so acquiring them never suspends; the suspension   *)
(* points are the download (asyncio.to_thread), asyncio.sleep and the      *)
(* sends to Discord.  Each action below is one such atomic segment.        *)
(***************************************************************************)
EXTENDS Integers, Sequences, FiniteSets, TLC

(***************************************************************************)
(* Program constants                                                       *)
(***************************************************************************)
DaySeconds == 86400
RETRY_DELAY == 300
OPEN_TIME == 41400
DEFAULT_CLOSE_TIME == 53100
TITU_CLOSE_TIME == 67500
Saturday == 5
DefaultRetries == 3
DefaultMaxEntries == 5
MaxLookback == 21
DEFAULT_CANTINA_KEY == "gau"
CHANNEL_ID == "chDefault"

CantinaKeys == {"gau", "titu", "aka"}

\* CANTINAS[key].close_time
close_time(key) == IF key = "titu" THEN TITU_CLOSE_TIME ELSE DEFAULT_CLOSE_TIME

\* CANTINAS[key].auto_post (False by default, True for "gau" only)
auto_post(key) == key = "gau"

(***************************************************************************)
(* Dates and times                                                         *)
(***************************************************************************)
DateOf(dt) == dt \div DaySeconds
TimeOf(dt) == dt % DaySeconds
weekday(d) == d % 7

\* First day number of each month of 2024, and one past December.
MonthStart == <<0, 31, 60, 91, 121, 152, 182, 213, 244, 274, 305, 335, 366>>

\* strftime("%m") of a date of 2024
MonthOf(d) == CHOOSE m \in 1..12 : MonthStart[m] <= d /\ d < MonthStart[m + 1]

\* target_date.day
DayOfMonth(d) == d - MonthStart[MonthOf(d)] + 1

\* All datetimes of the program are already in ROMANIA_TZ: astimezone to the
\* zone a value is in returns the same wall-clock value.
to_romania(dt) == dt

move_to_auto_time(reference) == DateOf(to_romania(reference)) * DaySeconds + OPEN_TIME

\* an alignment that leaves a Saturday or Sunday where it is
align_keeps_weekend(target) == to_romania(target)

\* lines 394-398: move a Saturday or Sunday forward to Monday, same time
RECURSIVE align_to_weekday(_)
align_to_weekday(target) ==
    IF weekday(DateOf(target)) >= Saturday
    THEN align_to_weekday(target + DaySeconds)
    ELSE target

\* an initial target that accepts an opening time equal to the reference
initial_not_strictly_later(reference) ==
    LET target == move_to_auto_time(reference)
    IN  IF target < reference
        THEN align_to_weekday(move_to_auto_time(reference + DaySeconds))
        ELSE align_to_weekday(target)

get_initial_auto_post_time(reference) ==
    LET target == move_to_auto_time(reference)
    IN  IF target <= reference
        THEN align_to_weekday(move_to_auto_time(reference + DaySeconds))
        ELSE align_to_weekday(target)

\* the next day's opening time without the move to a weekday
next_day_unaligned(reference) ==
    move_to_auto_time(reference + DaySeconds)

get_next_day_auto_post_time(reference) ==
    align_to_weekday(move_to_auto_time(reference + DaySeconds))

get_retry_auto_post_time(reference) ==
    LET candidate == reference + RETRY_DELAY
    IN  IF weekday(DateOf(candidate)) >= Saturday
        THEN get_next_day_auto_post_time(candidate)
        ELSE candidate

(***************************************************************************)
(* Candidate dates and the scenario of a manual command                    *)
(***************************************************************************)
\* The while loop of build_candidate_dates: dates collected so far, the day
\* looked at, the number of steps taken.
\* a walk that collects one date more than needed
RECURSIVE candidate_walk_one_more(_, _, _, _)
candidate_walk_one_more(dates, current, attempts, total_needed) ==
    IF Len(dates) <= total_needed /\ attempts < MaxLookback
    THEN candidate_walk_one_more(IF weekday(current) < Saturday
                                     THEN Append(dates, current) ELSE dates,
                                 current - 1, attempts + 1, total_needed)
    ELSE dates

RECURSIVE candidate_walk(_, _, _, _)
candidate_walk(dates, current, attempts, total_needed) ==
    IF Len(dates) < total_needed /\ attempts < MaxLookback
    THEN candidate_walk(IF weekday(current) < Saturday
                            THEN Append(dates, current) ELSE dates,
                        current - 1, attempts + 1, total_needed)
    ELSE dates

\* the same loop, returning the number of steps it took (`attempts`)
RECURSIVE candidate_walk_attempts(_, _, _, _)
candidate_walk_attempts(dates, current, attempts, total_needed) ==
    IF Len(dates) < total_needed /\ attempts < MaxLookback
    THEN candidate_walk_attempts(IF weekday(current) < Saturday
                                     THEN Append(dates, current) ELSE dates,
                                 current - 1, attempts + 1, total_needed)
    ELSE attempts

\* a fallback that keeps today whatever its weekday
fallback_same_day(d) == d

RECURSIVE fallback_weekday(_)
fallback_weekday(d) == IF weekday(d) >= Saturday THEN fallback_weekday(d - 1) ELSE d

\* the builder without its fallback for an empty walk
build_without_fallback(today, include_today, max_entries) ==
    LET first == include_today /\ weekday(today) < Saturday
    IN  candidate_walk(IF first THEN <<today>> ELSE <<>>, today - 1, 0,
                       max_entries + (IF first THEN 1 ELSE 0))

build_candidate_dates(today, include_today, max_entries) ==
    LET first == include_today /\ weekday(today) < Saturday
        dates == candidate_walk(IF first THEN <<today>> ELSE <<>>,
                                today - 1, 0,
                                max_entries + (IF first THEN 1 ELSE 0))
    IN  IF dates = <<>> THEN <<fallback_weekday(today)>> ELSE dates

\* a classifier for which the closing time itself is already after_close
determine_closed_at_close_time(key, now_dt) ==
    LET today == DateOf(to_romania(now_dt))
        current_time == TimeOf(to_romania(now_dt))
    IN  IF weekday(today) >= Saturday
        THEN <<"weekend", build_candidate_dates(today, FALSE, DefaultMaxEntries)>>
        ELSE IF current_time < OPEN_TIME
        THEN <<"before_open", build_candidate_dates(today, FALSE, DefaultMaxEntries)>>
        ELSE IF current_time >= close_time(key)
        THEN <<"after_close", build_candidate_dates(today, TRUE, DefaultMaxEntries)>>
        ELSE <<"open", build_candidate_dates(today, TRUE, DefaultMaxEntries)>>

determine_command_scenario(key, now_dt) ==
    LET today == DateOf(to_romania(now_dt))
        current_time == TimeOf(to_romania(now_dt))
    IN  IF weekday(today) >= Saturday
        THEN <<"weekend", build_candidate_dates(today, FALSE, DefaultMaxEntries)>>
        ELSE IF current_time < OPEN_TIME
        THEN <<"before_open", build_candidate_dates(today, FALSE, DefaultMaxEntries)>>
        ELSE IF current_time > close_time(key)
        THEN <<"after_close", build_candidate_dates(today, TRUE, DefaultMaxEntries)>>
        ELSE <<"open", build_candidate_dates(today, TRUE, DefaultMaxEntries)>>

(***************************************************************************)
(* Candidate URLs.  A URL is the tuple of the fields its text is formatted *)
(* from: the directory (year 2024, month) and the file name's fields.      *)
(***************************************************************************)
build_gaudeamus_url(d) ==
    << <<MonthOf(d), "Meniu-site-GAU", DayOfMonth(d), MonthOf(d)>>,
       <<MonthOf(d), "GAU", DayOfMonth(d), MonthOf(d)>> >>

build_titu_url(d) ==
    << <<MonthOf(d), "meniu">>,
       <<MonthOf(d), "TM", DayOfMonth(d), MonthOf(d)>> >>

build_akademos_url(d) ==
    << <<MonthOf(d), "MENIU-AKADEMOS", DayOfMonth(d), MonthOf(d)>>,
       <<MonthOf(d), "AK", DayOfMonth(d), MonthOf(d)>> >>

url_builder(key, d) ==
    IF key = "gau" THEN build_gaudeamus_url(d)
    ELSE IF key = "titu" THEN build_titu_url(d)
    ELSE build_akademos_url(d)


(***************************************************************************)
(* Bounds of the model                                                     *)
(***************************************************************************)
\* direct fetch_and_cache_pdf calls (SpecPipeline)
MaxCalls == 3
\* largest `retries` of a direct call
MaxRounds == 2
\* menu commands, on_ready events and clock steps of a run (Spec)
MaxCommands == 1
MaxReady == 2
MaxSteps == 1

(***************************************************************************)
(* State                                                                   *)
(***************************************************************************)
VARIABLES
    now,                \* the wall clock, datetime.now(ROMANIA_TZ)
    pdf_cache,          \* module variable pdf_cache: cache key -> page list
    next_auto_post_at,  \* module variable: <<>> (None) or <<datetime>>
    last_channel_id,    \* module variable
    auto_post_task,     \* module variable: "none", or the state of the task
    scheduler_started,  \* module variable _scheduler_started
    tasks,              \* the coroutines in flight, by slot
    calls,              \* number of calls and commands started
    ready_events,       \* number of on_ready events so far
    clock_steps,        \* number of steps of the clock
    writes,             \* history: cache key -> the page lists stored, in order
    sent,               \* history: what the delivery sink received
    cache_lock,         \* module variable cache_lock: 0 (free) or its holder
    auto_schedule_lock, \* module variable auto_schedule_lock: 0 or its holder
    probe,              \* the last call of a date or time function, with its result
    loop_tasks          \* the auto_post_loop tasks the event loop holds (not ended)

vars == <<now, pdf_cache, next_auto_post_at, last_channel_id, auto_post_task,
          scheduler_started, tasks, calls, ready_events, clock_steps,
          writes, sent, cache_lock, auto_schedule_lock, probe, loop_tasks>>

\* the scheduler's module variables, and the counters that bound a run
sched_vars == <<next_auto_post_at, auto_post_task, scheduler_started, loop_tasks>>
counters == <<calls, ready_events, clock_steps>>
\* the two asyncio locks (lines 214-215)
lock_vars == <<cache_lock, auto_schedule_lock>>

\* Optional values: None is <<>>, a value x is <<x>>.
None == <<>>
Some(x) == <<x>>

TaskIds == {1, 2}

\* Page lists a document can render to (never empty: see Docs).
PageSeqs == {<<"pA">>, <<"pB1", "pB2">>}
\* What a downloaded document renders to: len(pdf_document) may be 0.
Docs == {<<>>} \cup PageSeqs
\* Outcome of one download-and-render: an exception (transport error, HTTP
\* error status from raise_for_status, fitz failing to open the content) or
\* a document.
Outcomes == {<<"error">>} \cup {<<"doc", p>> : p \in Docs}

NoRet == [st |-> "none", key |-> <<>>, pages |-> None, from_cache |-> FALSE,
          log |-> <<>>, outs |-> <<>>, gen |-> 0, urls |-> <<>>,
          retries |-> 0, after_fail |-> FALSE]

\* no date or time function has been called yet
NoProbe == [fn |-> "none", arg |-> <<>>, res |-> <<>>]

IdleTask == [kind |-> "idle", pc |-> "idle", cantina |-> "", builder |-> "",
             chan |-> "", start |-> 0, scenario |-> "", dates |-> <<>>,
             di |-> 0, retries |-> 0, fdate |-> 0, urls |-> <<>>,
             attempt |-> 0, vi |-> 0, log |-> <<>>, outs |-> <<>>,
             gen |-> 0, after_fail |-> FALSE, ret |-> NoRet, tried |-> <<>>,
             actual |-> None, images |-> <<>>, from_cache |-> FALSE,
             fine |-> FALSE, target |-> 0]

(***************************************************************************)
(* Document cache                                                          *)
(***************************************************************************)
\* f"{cantina_key}:{target_date:%Y-%m-%d}" (the year is 2024)
make_cache_key(cantina_key, d) == <<cantina_key, MonthOf(d), DayOfMonth(d)>>

\* a lookup that never finds an entry
lookup_misses(cantina_key, d) == None

\* pdf_cache.get(key), copied; None when absent
get_cached_images(cantina_key, d) ==
    LET key == make_cache_key(cantina_key, d)
    IN  IF key \in DOMAIN pdf_cache THEN Some(pdf_cache[key]) ELSE None

\* a store that keeps the entry a key already has (pdf_cache.setdefault)
store_keeps_first(cantina_key, d, image_bytes_list) ==
    LET key == make_cache_key(cantina_key, d)
    IN  [k \in DOMAIN pdf_cache \cup {key} |->
            IF k \in DOMAIN pdf_cache THEN pdf_cache[k] ELSE image_bytes_list]

\* the value of pdf_cache after pdf_cache[key] = list(image_bytes_list)
store_cached_images(cantina_key, d, image_bytes_list) ==
    LET key == make_cache_key(cantina_key, d)
    IN  [k \in DOMAIN pdf_cache \cup {key} |->
            IF k = key THEN image_bytes_list ELSE pdf_cache[k]]

(***************************************************************************)
(* Fetch-render pipeline: fetch_and_cache_pdf inside resolve_menu_images   *)
(* inside send_menu.  The operators below compute the record of a task     *)
(* at its next suspension point.                                           *)
(***************************************************************************)
\* lines 256-262: drop empty and repeated candidates, keep the order
RECURSIVE dedup_urls(_, _)
dedup_urls(raw, kept) ==
    IF raw = <<>> THEN kept
    ELSE LET candidate == Head(raw)
         IN  IF candidate = <<>> \/ (\E i \in 1..Len(kept) : kept[i] = candidate)
             THEN dedup_urls(Tail(raw), kept)
             ELSE dedup_urls(Tail(raw), Append(kept, candidate))

\* cantina.url_builder(target_date).  Besides the three configured cantinas,
\* the pipeline is exercised with configs whose builder returns one
\* candidate, an empty and a repeated candidate, or none.
config_candidates(builder, d) ==
    IF builder \in CantinaKeys THEN url_builder(builder, d)
    ELSE IF builder = "one" THEN << <<MonthOf(d), "only", DayOfMonth(d)>> >>
    ELSE IF builder = "repeat"
    THEN << <<>>, <<MonthOf(d), "twice", DayOfMonth(d)>>,
            <<MonthOf(d), "twice", DayOfMonth(d)>> >>
    ELSE <<>>

\* history: the call returned failure (None) for this key
failed_for(ret, key) == ret.st \in {"nocand", "exhausted", "empty"} /\ ret.key = key

\* history: how many times a key has been stored
stores_so_far(key) == IF key \in DOMAIN writes THEN Len(writes[key]) ELSE 0

\* The record of a finished fetch_and_cache_pdf call: its result, the
\* downloads it started (log) and how each ended (outs), and how many stores
\* of its key preceded it (gen).
call_record(s, st, pages, from_cache) ==
    [st |-> st, key |-> make_cache_key(s.cantina, s.fdate), pages |-> pages,
     from_cache |-> from_cache, log |-> s.log, outs |-> s.outs,
     gen |-> s.gen, urls |-> s.urls, retries |-> s.retries,
     after_fail |-> s.after_fail]

RECURSIVE resolve_from(_, _)

\* fetch_and_cache_pdf returns `pages` (None, or <<page list>>) to its caller:
\* a direct caller, which keeps the record of the call, or the loop of
\* resolve_menu_images (lines 312-316) and then send_menu (lines 345-362),
\* where the locals of the call are gone.  `tried` is the history of the
\* dates resolve_menu_images has handed to the pipeline, each with whether
\* it resolved.
fetch_return(s, st, pages, from_cache) ==
    IF s.kind = "direct"
    THEN [s EXCEPT !.pc = "done", !.ret = call_record(s, st, pages, from_cache)]
    ELSE IF pages = None
    THEN resolve_from([s EXCEPT !.tried = Append(s.tried, <<s.fdate, FALSE>>)],
                      s.di + 1)
    ELSE [s EXCEPT !.pc = "send", !.actual = Some(s.fdate),
                   !.tried = Append(s.tried, <<s.fdate, TRUE>>),
                   !.images = pages[1], !.from_cache = from_cache,
                   !.urls = <<>>, !.attempt = 0, !.vi = 0, !.log = <<>>,
                   !.outs = <<>>, !.gen = 0]

\* a retry loop that gives up one round early
end_one_round_early(s) ==
    IF s.attempt + 1 < s.retries
    THEN [s EXCEPT !.pc = "sleep"]
    ELSE fetch_return(s, "exhausted", None, FALSE)

\* lines 290-294: the end of a round in which every candidate failed
end_of_round(s) ==
    IF s.attempt < s.retries
    THEN [s EXCEPT !.pc = "sleep"]
    ELSE fetch_return(s, "exhausted", None, FALSE)

\* lines 267-271: the next download of the call starts
start_download(s, attempt, vi) ==
    [s EXCEPT !.pc = "download", !.attempt = attempt, !.vi = vi,
              !.log = Append(s.log, s.urls[vi])]

\* lines 247-271: fetch_and_cache_pdf(cantina, d, retries) up to its first
\* suspension
enter_fetch(s0, d) ==
    LET cached == get_cached_images(s0.cantina, d)
        pdf_urls == dedup_urls(config_candidates(s0.builder, d), <<>>)
        s == [s0 EXCEPT !.fdate = d, !.urls = pdf_urls, !.attempt = 0, !.vi = 0,
                        !.log = <<>>, !.outs = <<>>,
                        !.gen = stores_so_far(make_cache_key(s0.cantina, d))]
    IN  IF cached # None
        THEN fetch_return(s, "cached", cached, TRUE)
        ELSE IF pdf_urls = <<>>
        THEN fetch_return(s, "nocand", None, FALSE)
        ELSE IF s.retries < 1
        THEN fetch_return(s, "exhausted", None, FALSE)
        ELSE start_download(s, 1, 1)

\* line 312: resolve_menu_images calls fetch_and_cache_pdf, which runs up to
\* its first suspension; a task followed lock by lock (`fine`) stops first
\* at the cache lock of get_cached_images (line 228)
call_fetch(s, d) ==
    IF s.fine
    THEN [s EXCEPT !.fdate = d, !.pc = "get_acquire"]
    ELSE enter_fetch(s, d)

\* a resolver that skips repeated dates but not weekend dates
resolve_weekends_too(s, i) ==
    IF i > Len(s.dates)
    THEN [s EXCEPT !.pc = "sendfail", !.di = i, !.urls = <<>>, !.attempt = 0,
                   !.vi = 0, !.log = <<>>, !.outs = <<>>, !.gen = 0]
    ELSE LET target_date == s.dates[i]
         IN  IF \E j \in 1..(i - 1) : s.dates[j] = target_date
             THEN resolve_from(s, i + 1)
             ELSE call_fetch([s EXCEPT !.di = i], target_date)

\* lines 303-317: the loop of resolve_menu_images from the i-th date on, and
\* lines 346-349 of send_menu when no date resolves
resolve_from(s, i) ==
    IF i > Len(s.dates)
    THEN [s EXCEPT !.pc = "sendfail", !.di = i, !.urls = <<>>, !.attempt = 0,
                   !.vi = 0, !.log = <<>>, !.outs = <<>>, !.gen = 0]
    ELSE LET target_date == s.dates[i]
         IN  IF (\E j \in 1..(i - 1) : s.dates[j] = target_date)
                \/ weekday(target_date) >= Saturday
             THEN resolve_from(s, i + 1)
             ELSE call_fetch([s EXCEPT !.di = i], target_date)

\* lines 272-289: a download ends.  An exception moves on to the next
\* candidate; a document of zero pages returns None; a document with pages
\* is cached and returned.
after_download(s, outcome) ==
    LET t == [s EXCEPT !.outs = Append(s.outs,
                                 IF outcome[1] = "error" THEN "error"
                                 ELSE IF outcome[2] = <<>> THEN "empty"
                                 ELSE "pages")]
    IN  IF outcome[1] = "error"
        THEN IF s.vi < Len(s.urls)
             THEN start_download(t, s.attempt, s.vi + 1)
             ELSE end_of_round(t)
        ELSE IF outcome[2] = <<>>
        THEN fetch_return(t, "empty", None, FALSE)
        ELSE fetch_return(t, "fetched", Some(outcome[2]), FALSE)

\* a cache that stores whatever document was downloaded
cache_any_document(s, outcome) ==
    IF outcome[1] = "doc"
    THEN store_cached_images(s.cantina, s.fdate, outcome[2])
    ELSE pdf_cache

\* a cache that remembers a failed download as an entry without pages
cache_remembers_miss(s, outcome) ==
    IF outcome[1] = "doc" /\ outcome[2] # <<>>
    THEN store_cached_images(s.cantina, s.fdate, outcome[2])
    ELSE store_cached_images(s.cantina, s.fdate, <<>>)

\* the cache after a download: written only for a document with pages
cache_after_download(s, outcome) ==
    IF outcome[1] = "doc" /\ outcome[2] # <<>>
    THEN store_cached_images(s.cantina, s.fdate, outcome[2])
    ELSE pdf_cache

\* history: the page lists stored for each key, in order
writes_after_download(s, outcome) ==
    LET key == make_cache_key(s.cantina, s.fdate)
    IN  IF outcome[1] = "doc" /\ outcome[2] # <<>>
        THEN [k \in DOMAIN writes \cup {key} |->
                 IF k = key
                 THEN (IF key \in DOMAIN writes THEN writes[key] ELSE <<>>)
                      \o <<outcome[2]>>
                 ELSE writes[k]]
        ELSE writes

(***************************************************************************)
(* Pipeline actions                                                        *)
(***************************************************************************)
\* Date (Tuesday 2024-03-05) and configs of the direct calls: <<key, builder>>
CallDate == MonthStart[3] + 4
CallConfigs == {<<"gau", "gau">>, <<"gau", "repeat">>, <<"gau", "none">>,
                <<"titu", "titu">>}

\* fetch_and_cache_pdf(cantina, target_date, retries) is called
CallStart(t, config, r) ==
    /\ tasks[t].pc \in {"idle", "done"}
    /\ calls < MaxCalls
    /\ tasks' = [tasks EXCEPT ![t] =
                    enter_fetch([IdleTask EXCEPT !.kind = "direct",
                                                 !.cantina = config[1],
                                                 !.builder = config[2],
                                                 !.retries = r,
                                                 !.after_fail =
                                                     failed_for(tasks[t].ret,
                                                         make_cache_key(config[1], CallDate))],
                                CallDate)]
    /\ calls' = calls + 1
    /\ UNCHANGED <<lock_vars, probe, now, pdf_cache, sched_vars, last_channel_id, ready_events,
                   clock_steps, writes, sent>>

\* the download of a task ends (line 271 returns or raises, lines 272-289)
DownloadDone(t, outcome) ==
    /\ tasks[t].pc = "download"
    /\ tasks' = [tasks EXCEPT ![t] = after_download(tasks[t], outcome)]
    /\ pdf_cache' = cache_after_download(tasks[t], outcome)
    /\ writes' = writes_after_download(tasks[t], outcome)
    /\ UNCHANGED <<lock_vars, probe, now, sched_vars, last_channel_id, counters, sent>>

\* asyncio.sleep(delay) between two rounds ends (line 292)
SleepDone(t) ==
    /\ tasks[t].pc = "sleep"
    /\ tasks' = [tasks EXCEPT ![t] = start_download(tasks[t], tasks[t].attempt + 1, 1)]
    /\ UNCHANGED <<lock_vars, probe, now, pdf_cache, sched_vars, last_channel_id, counters,
                   writes, sent>>

\* Tuesday 2024-03-05, 11:30
InitTime == CallDate * DaySeconds + OPEN_TIME

\* the module's state after import (lines 213-219)
InitModule ==
    /\ pdf_cache = <<>>
    /\ next_auto_post_at = None
    /\ last_channel_id = CHANNEL_ID
    /\ auto_post_task = "none"
    /\ scheduler_started = FALSE
    /\ tasks = [t \in TaskIds |-> IdleTask]
    /\ calls = 0
    /\ ready_events = 0
    /\ clock_steps = 0
    /\ writes = <<>>
    /\ sent = {}
    /\ cache_lock = 0
    /\ auto_schedule_lock = 0
    /\ probe = NoProbe
    /\ loop_tasks = <<>>

InitPipeline ==
    /\ now = InitTime
    /\ InitModule

NextPipeline ==
    \/ \E t \in TaskIds, c \in CallConfigs, r \in 0..MaxRounds : CallStart(t, c, r)
    \/ \E t \in TaskIds, o \in Outcomes : DownloadDone(t, o)
    \/ \E t \in TaskIds : SleepDone(t)

SpecPipeline == InitPipeline /\ [][NextPipeline]_vars

(***************************************************************************)
(* resolve_menu_images called with date lists of any content               *)
(***************************************************************************)
\* calls of resolve_menu_images in a run
MaxResolves == 2

\* Tue 2024-03-05 twice, Sun 03-03, Mon 03-04, Fri 03-01; a weekend only;
\* no date
ResolveLists ==
    {<<CallDate, CallDate, CallDate - 2, CallDate - 1, CallDate - 4>>,
     <<CallDate - 3, CallDate - 2>>,
     <<>>}

\* resolve_menu_images(cantina, candidate_dates, retries) is called by
\* send_menu (line 344).  When it returns, the task is at "send" (a date
\* resolved, line 353) or at "sendfail" (None, line 345).
ResolveStart(t, dates, r) ==
    /\ tasks[t].pc \in {"idle", "send", "sendfail"}
    /\ calls < MaxResolves
    /\ calls' = calls + 1
    /\ tasks' = [tasks EXCEPT ![t] =
                    resolve_from([IdleTask EXCEPT !.kind = "resolve",
                                                  !.cantina = DEFAULT_CANTINA_KEY,
                                                  !.builder = DEFAULT_CANTINA_KEY,
                                                  !.dates = dates,
                                                  !.retries = r], 1)]
    /\ UNCHANGED <<now, pdf_cache, sched_vars, last_channel_id, ready_events,
                   clock_steps, writes, sent, lock_vars, probe>>

NextResolve ==
    \/ \E t \in TaskIds, l \in ResolveLists, r \in 1..MaxRounds : ResolveStart(t, l, r)
    \/ \E t \in TaskIds, o \in Outcomes : DownloadDone(t, o)
    \/ \E t \in TaskIds : SleepDone(t)

SpecResolve == InitPipeline /\ [][NextResolve]_vars

(***************************************************************************)
(* The bot: on_ready, the auto-post loop task, the menu commands           *)
(***************************************************************************)
\* set_next_auto_post: the value of next_auto_post_at after the call
set_next_auto_post(target) == Some(to_romania(target))

\* an on_ready that creates a loop task at every connect
ready_always_creates == TRUE

\* line 659 of on_ready: the loop task is created unless one is running
ready_creates_task == ~scheduler_started \/ auto_post_task \in {"none", "raised"}

\* line 660: bot.loop.create_task(auto_post_loop()) adds a task to the event
\* loop
loop_tasks_after_ready ==
    IF ready_creates_task THEN Append(loop_tasks, "created") ELSE loop_tasks

\* on_ready (lines 649-664): the first connect and every reconnect
OnReady ==
    /\ ready_events < MaxReady
    /\ ready_events' = ready_events + 1
    /\ next_auto_post_at' =
          IF next_auto_post_at = None
          THEN set_next_auto_post(get_initial_auto_post_time(now))
          ELSE next_auto_post_at
    /\ IF ready_creates_task
       THEN /\ auto_post_task' = "created"
            /\ scheduler_started' = TRUE
       ELSE UNCHANGED <<auto_post_task, scheduler_started>>
    /\ loop_tasks' = loop_tasks_after_ready
    /\ UNCHANGED <<lock_vars, probe, now, pdf_cache, last_channel_id, tasks, calls, clock_steps,
                   writes, sent>>

\* auto_post_loop starts (lines 543-545).  The function assigns
\* next_auto_post_at (line 551) without declaring it global, so the name is
\* local to the function; line 545 reads it before any assignment and raises
\* UnboundLocalError outside the try of the loop: the task ends with the
\* exception and lines 546-616 never run.
LoopStart ==
    /\ \E i \in 1..Len(loop_tasks) :
           /\ loop_tasks' = SubSeq(loop_tasks, 1, i - 1)
                                \o SubSeq(loop_tasks, i + 1, Len(loop_tasks))
           /\ auto_post_task' =
                  IF i = Len(loop_tasks) /\ auto_post_task = "created"
                  THEN "raised" ELSE auto_post_task
    /\ UNCHANGED <<lock_vars, probe, now, pdf_cache, next_auto_post_at, scheduler_started,
                   last_channel_id, tasks, counters, writes, sent>>

\* interaction.channel of a command: a channel, or None
Channels == {"chOther"}
NoChannel == "nochannel"

\* /meniu, /meniu-gau, /meniu-titu, /meniu-aka: handle_menu_interaction up to
\* its first suspension (lines 620-639, 330-345).  A command with no channel
\* returns at once (lines 330-332).  A finished command leaves no task.
MenuCommand(t, key, channel) ==
    /\ \A u \in TaskIds : tasks[u].pc = "idle"
    /\ t = 1
    /\ calls < MaxCommands
    /\ calls' = calls + 1
    /\ LET sc == determine_command_scenario(key, now)
           s == [IdleTask EXCEPT !.kind = "manual", !.cantina = key,
                                 !.builder = key, !.chan = channel,
                                 !.start = now, !.scenario = sc[1],
                                 !.dates = sc[2], !.retries = DefaultRetries]
       IN  tasks' = [tasks EXCEPT ![t] =
                        IF channel = NoChannel
                        THEN IdleTask
                        ELSE resolve_from(s, 1)]
    /\ UNCHANGED <<lock_vars, probe, now, pdf_cache, sched_vars, last_channel_id, ready_events,
                   clock_steps, writes, sent>>

\* what the delivery sink answers: delivered, discord.Forbidden, or another
\* exception
SendResults == {"ok", "forbidden", "error"}

\* a delivery that records the channel of any cantina's post
channel_after_any_send(s, result) ==
    IF result = "ok" THEN s.chan ELSE last_channel_id

\* lines 362-365: last_channel_id once send_message_func has returned or
\* raised; it is assigned after a delivery, for a cantina with auto_post
channel_after_send(s, result) ==
    IF result = "ok" /\ auto_post(s.cantina) THEN s.chan ELSE last_channel_id

\* send_message_func(content, files=files) ends (lines 361-369), and then
\* lines 641-645 of handle_menu_interaction
SendDone(t, result) ==
    LET s == tasks[t]
        posted_date == s.actual[1]
    IN  /\ s.pc = "send"
        /\ tasks' = [tasks EXCEPT ![t] = IdleTask]
        /\ sent' = IF result = "ok"
                   THEN sent \cup {[by |-> "manual", kind |-> "menu",
                                    chan |-> s.chan, cantina |-> s.cantina,
                                    date |-> posted_date]}
                   ELSE sent
        /\ last_channel_id' = channel_after_send(s, result)
        /\ next_auto_post_at' =
              IF result = "ok" /\ auto_post(s.cantina) /\ posted_date = DateOf(s.start)
              THEN set_next_auto_post(get_next_day_auto_post_time(s.start))
              ELSE next_auto_post_at
        /\ UNCHANGED <<lock_vars, probe, now, pdf_cache, auto_post_task, scheduler_started,
                       loop_tasks, counters, writes>>

\* send_message_func(failure_message) ends (lines 347-352)
SendFailDone(t, result) ==
    LET s == tasks[t]
    IN  /\ s.pc = "sendfail"
        /\ tasks' = [tasks EXCEPT ![t] = IdleTask]
        /\ sent' = IF result = "ok"
                   THEN sent \cup {[by |-> "manual", kind |-> "failure",
                                    chan |-> s.chan, cantina |-> s.cantina,
                                    date |-> DateOf(s.start)]}
                   ELSE sent
        /\ UNCHANGED <<lock_vars, probe, now, pdf_cache, sched_vars, last_channel_id, counters,
                       writes>>

\* the wall clock advances: by a poll interval of the loop, or by a day
POLL_SECONDS == 60
ClockSteps == {POLL_SECONDS, DaySeconds}

Tick(d) ==
    /\ clock_steps < MaxSteps
    /\ clock_steps' = clock_steps + 1
    /\ now' = now + d
    /\ UNCHANGED <<lock_vars, probe, pdf_cache, sched_vars, last_channel_id, tasks, calls,
                   ready_events, writes, sent>>

\* The process starts on Friday 2024-03-08 at 11:29.
StartTimes == {67 * DaySeconds + OPEN_TIME - POLL_SECONDS}

Init ==
    /\ now \in StartTimes
    /\ InitModule

Next ==
    \/ OnReady
    \/ LoopStart
    \/ \E t \in TaskIds, k \in CantinaKeys, c \in Channels \cup {NoChannel} :
          MenuCommand(t, k, c)
    \/ \E t \in TaskIds, o \in Outcomes : DownloadDone(t, o)
    \/ \E t \in TaskIds : SleepDone(t)
    \/ \E t \in TaskIds, r \in SendResults : SendDone(t, r)
    \/ \E t \in TaskIds, r \in SendResults : SendFailDone(t, r)
    \/ \E d \in ClockSteps : Tick(d)

Spec == Init /\ [][Next]_vars

(***************************************************************************)
(* The two locks, step by step.  Here a critical section is two steps, the *)
(* acquisition and the body with the release, and a task that finds a lock *)
(* held waits for it: a menu command of the auto-post cantina, direct      *)
(* calls of fetch_and_cache_pdf and on_ready run side by side.             *)
(***************************************************************************)
\* a lock that stays with its holder after the section
keep_lock(holder) == holder

\* the end of an `async with lock:` block: the lock is free again
release_lock(holder) == 0

\* fetch_and_cache_pdf(CANTINAS["gau"], target_date, retries=r) is called;
\* the direct calls run in slot 2
FineCallStart(t, r) ==
    /\ t = 2
    /\ tasks[t].pc \in {"idle", "done"}
    /\ calls < MaxCalls
    /\ calls' = calls + 1
    /\ tasks' = [tasks EXCEPT ![t] =
                    [IdleTask EXCEPT !.kind = "direct", !.fine = TRUE,
                                     !.cantina = DEFAULT_CANTINA_KEY,
                                     !.builder = DEFAULT_CANTINA_KEY,
                                     !.retries = r, !.fdate = CallDate,
                                     !.pc = "get_acquire"]]
    /\ UNCHANGED <<now, pdf_cache, sched_vars, last_channel_id, ready_events,
                   clock_steps, writes, sent, lock_vars, probe>>

\* /meniu-gau in a channel (lines 620-639, 330-344, 303-312); the commands
\* run in slot 1
FineMenuCommand(t) ==
    /\ t = 1
    /\ tasks[t].pc = "idle"
    /\ calls < MaxCommands
    /\ calls' = calls + 1
    /\ LET sc == determine_command_scenario(DEFAULT_CANTINA_KEY, now)
           s == [IdleTask EXCEPT !.kind = "manual", !.fine = TRUE,
                                 !.cantina = DEFAULT_CANTINA_KEY,
                                 !.builder = DEFAULT_CANTINA_KEY,
                                 !.chan = "chOther", !.start = now,
                                 !.scenario = sc[1], !.dates = sc[2],
                                 !.retries = DefaultRetries]
       IN  tasks' = [tasks EXCEPT ![t] = resolve_from(s, 1)]
    /\ UNCHANGED <<now, pdf_cache, sched_vars, last_channel_id, ready_events,
                   clock_steps, writes, sent, lock_vars, probe>>

\* `async with cache_lock:` is entered (lines 228, 237): the lock is free
AcquireCacheLock(t) ==
    /\ tasks[t].pc \in {"get_acquire", "store_acquire"}
    /\ cache_lock = 0
    /\ cache_lock' = t
    /\ tasks' = [tasks EXCEPT ![t].pc =
                    IF tasks[t].pc = "get_acquire" THEN "get_locked"
                    ELSE "store_locked"]
    /\ UNCHANGED <<now, pdf_cache, sched_vars, last_channel_id, counters,
                   writes, sent, auto_schedule_lock, probe>>

\* line 229 under the lock, then lines 230-271 up to the first download
CacheLookup(t) ==
    /\ tasks[t].pc = "get_locked"
    /\ cache_lock' = release_lock(t)
    /\ tasks' = [tasks EXCEPT ![t] = enter_fetch(tasks[t], tasks[t].fdate)]
    /\ UNCHANGED <<now, pdf_cache, sched_vars, last_channel_id, counters,
                   writes, sent, auto_schedule_lock, probe>>

\* a download ends (lines 271-285): a document with pages goes on to
\* store_cached_images and its lock (line 237)
FineDownloadDone(t, outcome) ==
    /\ tasks[t].pc = "download"
    /\ tasks' = [tasks EXCEPT ![t] =
                    IF outcome[1] = "doc" /\ outcome[2] # <<>>
                    THEN [tasks[t] EXCEPT !.pc = "store_acquire",
                                          !.images = outcome[2]]
                    ELSE after_download(tasks[t], outcome)]
    /\ UNCHANGED <<now, pdf_cache, sched_vars, last_channel_id, counters,
                   writes, sent, lock_vars, probe>>

\* line 238 under the lock, then lines 286-287 and the return to the caller
CacheStore(t) ==
    LET outcome == <<"doc", tasks[t].images>>
    IN  /\ tasks[t].pc = "store_locked"
        /\ cache_lock' = release_lock(t)
        /\ pdf_cache' = cache_after_download(tasks[t], outcome)
        /\ writes' = writes_after_download(tasks[t], outcome)
        /\ tasks' = [tasks EXCEPT ![t] = after_download(tasks[t], outcome)]
        /\ UNCHANGED <<now, sched_vars, last_channel_id, counters, sent,
                       auto_schedule_lock, probe>>

\* the delivery of a menu ends (lines 361-369); lines 641-642 then call
\* set_next_auto_post, which stops at the schedule lock (line 422)
FineSendDone(t, result) ==
    LET s == tasks[t]
        posted_date == s.actual[1]
    IN  /\ s.pc = "send"
        /\ tasks' = [tasks EXCEPT ![t] =
                        IF result = "ok" /\ auto_post(s.cantina)
                           /\ posted_date = DateOf(s.start)
                        THEN [IdleTask EXCEPT !.kind = "manual", !.fine = TRUE,
                                              !.pc = "sched_acquire",
                                              !.target =
                                                  get_next_day_auto_post_time(s.start)]
                        ELSE IdleTask]
        /\ sent' = IF result = "ok"
                   THEN sent \cup {[by |-> "manual", kind |-> "menu",
                                    chan |-> s.chan, cantina |-> s.cantina,
                                    date |-> posted_date]}
                   ELSE sent
        /\ last_channel_id' = channel_after_send(s, result)
        /\ UNCHANGED <<now, pdf_cache, sched_vars, counters, writes,
                       lock_vars, probe>>

\* on_ready starts (lines 649-653) and stops at the schedule lock
FineReadyStart(t) ==
    /\ tasks[t].pc = "idle"
    /\ ready_events < MaxReady
    /\ ready_events' = ready_events + 1
    /\ tasks' = [tasks EXCEPT ![t] =
                    [IdleTask EXCEPT !.kind = "ready", !.fine = TRUE,
                                     !.pc = "read_acquire"]]
    /\ UNCHANGED <<now, pdf_cache, sched_vars, last_channel_id, calls,
                   clock_steps, writes, sent, lock_vars, probe>>

\* `async with auto_schedule_lock:` is entered (lines 422, 653)
AcquireScheduleLock(t) ==
    /\ tasks[t].pc \in {"read_acquire", "sched_acquire"}
    /\ auto_schedule_lock = 0
    /\ auto_schedule_lock' = t
    /\ tasks' = [tasks EXCEPT ![t].pc =
                    IF tasks[t].pc = "read_acquire" THEN "read_locked"
                    ELSE "sched_locked"]
    /\ UNCHANGED <<now, pdf_cache, sched_vars, last_channel_id, counters,
                   writes, sent, cache_lock, probe>>

\* line 654 under the lock; then line 657 up to the lock of
\* set_next_auto_post, or lines 659-664 when a target is armed
ScheduleRead(t) ==
    /\ tasks[t].pc = "read_locked"
    /\ auto_schedule_lock' = release_lock(t)
    /\ IF next_auto_post_at = None
       THEN /\ tasks' = [tasks EXCEPT ![t].pc = "sched_acquire",
                                      ![t].target = get_initial_auto_post_time(now)]
            /\ UNCHANGED <<auto_post_task, scheduler_started, loop_tasks>>
       ELSE /\ tasks' = [tasks EXCEPT ![t] = IdleTask]
            /\ auto_post_task' = IF ready_creates_task THEN "created"
                                 ELSE auto_post_task
            /\ scheduler_started' = (scheduler_started \/ ready_creates_task)
            /\ loop_tasks' = loop_tasks_after_ready
    /\ UNCHANGED <<now, pdf_cache, next_auto_post_at, last_channel_id, counters,
                   writes, sent, cache_lock, probe>>

\* line 423 under the lock, then lines 424-426 and the caller's remainder:
\* lines 659-664 in on_ready, nothing in handle_menu_interaction
ScheduleSet(t) ==
    /\ tasks[t].pc = "sched_locked"
    /\ auto_schedule_lock' = release_lock(t)
    /\ next_auto_post_at' = set_next_auto_post(tasks[t].target)
    /\ tasks' = [tasks EXCEPT ![t] = IdleTask]
    /\ IF tasks[t].kind = "ready"
       THEN /\ auto_post_task' = IF ready_creates_task THEN "created"
                                 ELSE auto_post_task
            /\ scheduler_started' = (scheduler_started \/ ready_creates_task)
            /\ loop_tasks' = loop_tasks_after_ready
       ELSE UNCHANGED <<auto_post_task, scheduler_started, loop_tasks>>
    /\ UNCHANGED <<now, pdf_cache, last_channel_id, counters, writes, sent,
                   cache_lock, probe>>

NextLocks ==
    \/ \E t \in TaskIds : FineCallStart(t, 1)
    \/ \E t \in TaskIds : FineMenuCommand(t)
    \/ \E t \in TaskIds : AcquireCacheLock(t)
    \/ \E t \in TaskIds : CacheLookup(t)
    \/ \E t \in TaskIds, o \in Outcomes : FineDownloadDone(t, o)
    \/ \E t \in TaskIds : CacheStore(t)
    \/ \E t \in TaskIds : SleepDone(t)
    \/ \E t \in TaskIds, r \in SendResults : FineSendDone(t, r)
    \/ \E t \in TaskIds, r \in SendResults : SendFailDone(t, r)
    \/ \E t \in TaskIds : FineReadyStart(t)
    \/ \E t \in TaskIds : AcquireScheduleLock(t)
    \/ \E t \in TaskIds : ScheduleRead(t)
    \/ \E t \in TaskIds : ScheduleSet(t)
    \/ LoopStart

SpecLocks == InitPipeline /\ [][NextLocks]_vars

(***************************************************************************)
(* Calls of the date and time functions, with arguments of any value       *)
(***************************************************************************)
\* largest max_entries of a call of build_candidate_dates
MaxProbeEntries == 17
\* the week of Monday 2024-03-04, and the times of day around the opening
\* time and the closing times
ProbeDays == (MonthStart[3] + 3)..(MonthStart[3] + 9)
ProbeClock == {0, OPEN_TIME - 1, OPEN_TIME, OPEN_TIME + 1,
               DEFAULT_CLOSE_TIME - 1, DEFAULT_CLOSE_TIME, DEFAULT_CLOSE_TIME + 1,
               TITU_CLOSE_TIME, TITU_CLOSE_TIME + 1, DaySeconds - 1}
ProbeTimes == {d * DaySeconds + c : d \in ProbeDays, c \in ProbeClock}

\* build_candidate_dates(today, include_today, max_entries) is called
BuildCandidateDates(today, include_today, max_entries) ==
    /\ probe' = [fn |-> "build_candidate_dates",
                 arg |-> <<today, include_today, max_entries>>,
                 res |-> <<build_candidate_dates(today, include_today, max_entries),
                           candidate_walk_attempts(
                               IF include_today /\ weekday(today) < Saturday
                               THEN <<today>> ELSE <<>>,
                               today - 1, 0,
                               max_entries + (IF include_today /\ weekday(today) < Saturday
                                              THEN 1 ELSE 0))>>]
    /\ UNCHANGED <<now, pdf_cache, sched_vars, last_channel_id, tasks, counters,
                   writes, sent, lock_vars>>

\* determine_command_scenario(CANTINAS[key], now_dt) is called
DetermineScenario(key, now_dt) ==
    /\ probe' = [fn |-> "determine_command_scenario",
                 arg |-> <<key, now_dt>>,
                 res |-> determine_command_scenario(key, now_dt)]
    /\ UNCHANGED <<now, pdf_cache, sched_vars, last_channel_id, tasks, counters,
                   writes, sent, lock_vars>>

\* get_initial_auto_post_time(reference) is called
InitialAutoPostTime(reference) ==
    /\ probe' = [fn |-> "get_initial_auto_post_time",
                 arg |-> <<reference>>,
                 res |-> <<get_initial_auto_post_time(reference)>>]
    /\ UNCHANGED <<now, pdf_cache, sched_vars, last_channel_id, tasks, counters,
                   writes, sent, lock_vars>>

NextDates ==
    \/ \E d \in ProbeDays, b \in BOOLEAN, n \in 0..MaxProbeEntries :
          BuildCandidateDates(d, b, n)
    \/ \E k \in CantinaKeys, t \in ProbeTimes : DetermineScenario(k, t)
    \/ \E t \in ProbeTimes : InitialAutoPostTime(t)

SpecDates == InitPipeline /\ [][NextDates]_vars

(***************************************************************************)
(* Claims about the pipeline (checked under SpecPipeline)                  *)
(***************************************************************************)
\* a Saturday or Sunday; a list holds a date
IsWeekend(d) == weekday(d) \in {5, 6}
Holds(dates, d) == \E i \in 1..Len(dates) : dates[i] = d

\* the finished fetch_and_cache_pdf calls on record
Returned == {tasks[t].ret : t \in TaskIds} \ {NoRet}

\* `urls` repeated `rounds` times
RECURSIVE Rounds(_, _)
Rounds(urls, rounds) == IF rounds <= 0 THEN <<>> ELSE urls \o Rounds(urls, rounds - 1)

\* C1 as stated: once a resolve call of a (cafeteria, date) has succeeded,
\* every later resolve call of the pair returns the page sequence of that
\* first success, served from the cache, with no download attempt.
C1_SamePagesAsFirstSuccess ==
    \A r \in Returned :
        r.gen > 0 =>
            /\ r.from_cache
            /\ r.log = <<>>
            /\ r.pages = Some(writes[r.key][1])

\* C1 as amended: once a resolve call of a (cafeteria, date) has succeeded,
\* every later resolve call of the pair is served from the cache with no
\* download attempt and returns the page sequence most recently stored for
\* the pair, which is the first success's unless a call that had already
\* missed the cache stored its own pages later.
C1_ServedFromCache ==
    \A r \in Returned :
        r.gen > 0 =>
            /\ r.st = "cached"
            /\ r.from_cache
            /\ r.log = <<>>
            /\ r.pages = Some(writes[r.key][r.gen])

\* a call served from the cache after an overlapping call replaced the
\* first success's pages
C1_Witness ==
    \E r \in Returned :
        /\ r.gen = 2
        /\ r.from_cache
        /\ writes[r.key][2] # writes[r.key][1]

\* C3: a resolve call that misses the cache and whose downloads all fail
\* attempts every candidate, in list order, in each of its `retries` rounds
\* (retries x n downloads) and returns failure.
C3_RetryBound ==
    \A r \in Returned :
        (r.st # "cached" /\ \A i \in 1..Len(r.outs) : r.outs[i] = "error") =>
            /\ r.log = Rounds(r.urls, r.retries)
            /\ Len(r.log) = r.retries * Len(r.urls)
            /\ r.pages = None

\* two rounds over two candidates, all failed
C3_Witness ==
    \E r \in Returned :
        /\ r.st = "exhausted"
        /\ r.retries = 2
        /\ Len(r.urls) = 2
        /\ Len(r.log) = 4

\* C4: a download that renders to zero pages is treated like a failed
\* download: unless it was the last candidate of the last round, the call
\* goes on to another download.
C4_EmptyDocumentIsRetried ==
    \A r \in Returned :
        \A i \in 1..Len(r.outs) :
            r.outs[i] = "empty" =>
                \/ i = r.retries * Len(r.urls)
                \/ Len(r.log) > i

\* C17: every entry of the document cache holds at least one page; a
\* document that renders to zero pages is not stored.
C17_CacheEntriesNonEmpty ==
    \A k \in DOMAIN pdf_cache : Len(pdf_cache[k]) >= 1

\* a call ended on a document of zero pages, and the cache holds pages for
\* the same key from another call
C17_Witness ==
    \E r \in Returned : r.st = "empty" /\ r.key \in DOMAIN pdf_cache

\* C18: a step of a resolve call that does not end the call in success
\* leaves the cache as it is, so a call that returns failure has not changed
\* the cache; and a call made after a failed call for the same pair, with
\* still nothing stored for the pair, starts downloading again (when it has
\* candidates and at least one round).
C18_FailureLeavesNoTrace ==
    [][/\ \A t \in TaskIds :
              (/\ tasks'[t] # tasks[t]
               /\ ~(tasks'[t].pc = "done" /\ tasks'[t].ret.pages # None)) =>
                  pdf_cache' = pdf_cache
       /\ \A t \in TaskIds :
              (/\ tasks'[t].after_fail
               /\ tasks'[t].gen = 0
               /\ tasks'[t].urls # <<>>
               /\ tasks'[t].retries >= 1) =>
                  /\ Len(tasks'[t].log) >= 1
                  /\ tasks'[t].ret.st # "cached"]_vars

\* after a call that exhausted its rounds, a second call for the same pair
\* is downloading, and the cache holds nothing for the pair
C18_Witness ==
    \E t \in TaskIds :
        /\ tasks[t].after_fail
        /\ tasks[t].pc = "download"
        /\ make_cache_key(tasks[t].cantina, tasks[t].fdate) \notin DOMAIN pdf_cache

(***************************************************************************)
(* Claims about resolve_menu_images (checked under SpecResolve)            *)
(***************************************************************************)
\* the dates of a list that are no Saturday or Sunday and occur for the
\* first time, in the order of the list
EligibleDates(dates) ==
    LET first(i) == /\ ~IsWeekend(dates[i])
                    /\ \A j \in 1..(i - 1) : dates[j] # dates[i]
        idx == SelectSeq([i \in 1..Len(dates) |-> i], first)
    IN  [k \in 1..Len(idx) |-> dates[idx[k]]]

\* the dates a task has handed to the pipeline so far, in order
HandedDates(s) ==
    [k \in 1..Len(s.tried) |-> s.tried[k][1]]
        \o (IF s.pc \in {"download", "sleep"} THEN <<s.fdate>> ELSE <<>>)

\* C19: resolve_menu_images hands the dates to the pipeline in list order,
\* one at a time, without the repeated and the weekend dates; every date
\* before the last one handed over has failed; it returns the first date
\* that resolves, with no later date attempted, and returns None only after
\* every eligible date of the list has been handed over and has failed.
C19_FirstSuccessInOrder ==
    \A t \in TaskIds :
        LET s == tasks[t]
            handed == HandedDates(s)
            expected == EligibleDates(s.dates)
        IN  s.kind \in {"resolve", "manual"} =>
                /\ Len(handed) <= Len(expected)
                /\ \A k \in 1..Len(handed) : handed[k] = expected[k]
                /\ \A k \in 1..(Len(s.tried) - 1) : ~s.tried[k][2]
                /\ s.pc \in {"download", "sleep"} =>
                       \A k \in 1..Len(s.tried) : ~s.tried[k][2]
                /\ s.pc = "send" =>
                       /\ s.tried # <<>>
                       /\ s.tried[Len(s.tried)] = <<s.actual[1], TRUE>>
                /\ s.pc = "sendfail" =>
                       /\ handed = expected
                       /\ \A k \in 1..Len(s.tried) : ~s.tried[k][2]

\* Tuesday failed, the repeated Tuesday and the Sunday were skipped, Monday
\* resolved, and Friday was not attempted
C19_Witness ==
    \E t \in TaskIds :
        /\ tasks[t].kind = "resolve"
        /\ tasks[t].pc = "send"
        /\ Len(tasks[t].dates) = 5
        /\ tasks[t].tried = <<<<CallDate, FALSE>>, <<CallDate - 1, TRUE>>>>

\* the key a resolve call has downloaded or read, once it holds the pages
ResolvedKey(s) == make_cache_key(s.cantina, s.actual[1])

\* the complete page lists stored under a key so far
Written(key) ==
    IF key \in DOMAIN writes
    THEN {writes[key][i] : i \in 1..Len(writes[key])}
    ELSE {}

\* C21: resolve calls for the same uncached cantina and date may overlap and
\* each download; the cache then holds, under that key, the complete page
\* list of the latest store and nothing for a key never stored; and a call
\* served from the cache holds one of the complete page lists stored under
\* its key, never a part of one.
C21_LastWriterWins ==
    /\ DOMAIN pdf_cache = DOMAIN writes
    /\ \A key \in DOMAIN writes :
           /\ writes[key] # <<>>
           /\ pdf_cache[key] = writes[key][Len(writes[key])]
           /\ pdf_cache[key] \in PageSeqs
    /\ \A t \in TaskIds :
           (tasks[t].pc = "send" /\ tasks[t].from_cache) =>
               tasks[t].images \in Written(ResolvedKey(tasks[t]))

\* two overlapping resolve calls have both downloaded Tuesday's menu and
\* have both finished; the second stored other pages than the first, and
\* the cache holds the second's
C21_Witness ==
    LET key == make_cache_key(DEFAULT_CANTINA_KEY, CallDate)
    IN  /\ \A t \in TaskIds :
               /\ tasks[t].kind = "resolve"
               /\ tasks[t].pc = "send"
               /\ ~tasks[t].from_cache
               /\ tasks[t].actual = Some(CallDate)
               /\ tasks[t].tried = <<<<CallDate, TRUE>>>>
        /\ key \in DOMAIN writes
        /\ Len(writes[key]) = 2
        /\ writes[key][1] # writes[key][2]
        /\ pdf_cache[key] = writes[key][2]
        /\ \E t \in TaskIds : tasks[t].images = writes[key][1]

(***************************************************************************)
(* Claims about the locks (checked under SpecLocks)                        *)
(***************************************************************************)
\* where a task waits for a download (and its rendering), a sleep or a
\* delivery
Suspended == {"download", "sleep", "send", "sendfail"}

\* C20: a task that is in a download, a sleep or a delivery holds neither
\* the cache lock nor the schedule lock; a lock that is held is held by a
\* task inside the lookup or insert, or inside the read or write of the
\* target.
C20_NoLockAcrossSuspension ==
    /\ \A t \in TaskIds :
           tasks[t].pc \in Suspended => cache_lock # t /\ auto_schedule_lock # t
    /\ cache_lock # 0 => tasks[cache_lock].pc \in {"get_locked", "store_locked"}
    /\ auto_schedule_lock # 0 =>
           tasks[auto_schedule_lock].pc \in {"read_locked", "sched_locked"}

\* while the command's task is in a download, the other task is inside a
\* cache lookup or insert
C20_Witness ==
    \E t \in TaskIds, u \in TaskIds :
        /\ t # u
        /\ tasks[t].pc = "download"
        /\ tasks[t].kind = "manual"
        /\ cache_lock = u

(***************************************************************************)
(* Claims about the scheduler (checked under Spec)                         *)
(***************************************************************************)
\* the first weekday strictly after date d, and a date's opening time
NextWeekdayAfter(d) ==
    CHOOSE e \in (d + 1)..(d + 3) :
        /\ weekday(e) < Saturday
        /\ \A f \in (d + 1)..(e - 1) : weekday(f) >= Saturday
OpeningOf(d) == d * DaySeconds + OPEN_TIME

\* the step in which a menu command of the auto-post cantina delivers the
\* menu of the day the command was issued on
ManualPostOfToday(t) ==
    /\ tasks[t].pc = "send"
    /\ tasks'[t].pc = "idle"
    /\ sent' # sent
    /\ auto_post(tasks[t].cantina)
    /\ tasks[t].actual = Some(DateOf(tasks[t].start))

\* the loop task exists and has not ended
LoopAlive == auto_post_task \notin {"none", "raised"}

C8_LoopNeverEndsByError == auto_post_task # "raised"

\* C9: once the loop has been started, whenever the clock is a poll interval
\* past the armed target the loop task is alive to make the attempt.
C9_LoopAttemptsWhenDue ==
    (/\ scheduler_started
     /\ next_auto_post_at # None
     /\ now >= next_auto_post_at[1] + POLL_SECONDS) => LoopAlive

\* the number of loop tasks that have been created and have not ended
AliveLoopTasks == Len(loop_tasks)

\* C22: at most one loop task is alive at any time, and an on_ready event
\* creates a loop task only when none has been created yet or the one
\* created last has ended.
C22_SingleLoopTask ==
    [][/\ AliveLoopTasks <= 1
       /\ AliveLoopTasks' <= 1
       /\ AliveLoopTasks' > AliveLoopTasks =>
              /\ ready_events' = ready_events + 1
              /\ AliveLoopTasks = 0
              /\ auto_post_task \in {"none", "raised"}]_vars

\* after the first connect and a reconnect the event loop holds one loop
\* task, the one auto_post_task refers to
C22_Witness ==
    /\ ready_events = 2
    /\ loop_tasks = <<"created">>
    /\ auto_post_task = "created"

\* the step in which the delivery of task t's menu ends, and the message
\* the sink holds when it succeeded
DeliveryEnds(t) == tasks[t].pc = "send" /\ tasks'[t].pc = "idle"
MenuMessage(s) == [by |-> "manual", kind |-> "menu", chan |-> s.chan,
                   cantina |-> s.cantina, date |-> s.actual[1]]

\* C23: the last known delivery target changes only in a step that delivers
\* the menu of a cantina with autonomous posting to a channel, and it
\* becomes that channel; a failed resolution (the failure notice), a refused
\* or failed delivery and a post of any other cantina leave it unchanged.
C23_TargetChangesOnlyOnDelivery ==
    [][/\ last_channel_id' # last_channel_id =>
              \E t \in TaskIds :
                  /\ DeliveryEnds(t)
                  /\ tasks[t].cantina = DEFAULT_CANTINA_KEY
                  /\ MenuMessage(tasks[t]) \in sent'
                  /\ last_channel_id' = tasks[t].chan
       /\ \A t \in TaskIds :
              (tasks[t].pc = "sendfail" /\ tasks'[t].pc = "idle") =>
                  last_channel_id' = last_channel_id
       /\ \A t \in TaskIds :
              (DeliveryEnds(t) /\ (sent' = sent \/ ~auto_post(tasks[t].cantina))) =>
                  last_channel_id' = last_channel_id]_vars

\* the Gaudeamus menu was delivered to another channel than the configured
\* one, which is now the delivery target
C23_Witness ==
    /\ last_channel_id = "chOther"
    /\ last_channel_id # CHANNEL_ID
    /\ \E m \in sent : m.kind = "menu" /\ m.cantina = DEFAULT_CANTINA_KEY
                        /\ m.chan = last_channel_id

\* C24: in every reachable state the armed target, when there is one, falls
\* on a day from Monday to Friday, whether the initial scheduling or a
\* manual reset wrote it last.
C24_ArmedTargetOnWeekday ==
    next_auto_post_at # None =>
        weekday(DateOf(next_auto_post_at[1])) < Saturday

\* on_ready on Saturday 2024-03-09, with no post before it, has armed Monday
\* 11:30 and not Saturday 11:30, which is still ahead
C24_Witness ==
    /\ weekday(DateOf(now)) = Saturday
    /\ TimeOf(now) < OPEN_TIME
    /\ ready_events > 0
    /\ sent = {}
    /\ next_auto_post_at = Some(OpeningOf(DateOf(now) + 2))

(***************************************************************************)
(* Claims about the date and time functions (checked under SpecDates)      *)
(***************************************************************************)
\* C12: determine_command_scenario follows the decision table: a Saturday or
\* Sunday gives weekend without today; a weekday before 11:30 gives
\* before_open without today; a weekday after the cantina's closing time
\* gives after_close with today first; a weekday from 11:30 to the closing
\* time, both included, gives open with today first.
C12_DecisionTable ==
    probe.fn = "determine_command_scenario" =>
        LET key == probe.arg[1]
            today == DateOf(probe.arg[2])
            clock == TimeOf(probe.arg[2])
            closing == IF key = "titu" THEN 18 * 3600 + 45 * 60
                       ELSE 14 * 3600 + 45 * 60
            opening == 11 * 3600 + 30 * 60
            tag == probe.res[1]
            dates == probe.res[2]
        IN  /\ IsWeekend(today) => tag = "weekend" /\ ~Holds(dates, today)
            /\ (~IsWeekend(today) /\ clock < opening) =>
                   tag = "before_open" /\ ~Holds(dates, today)
            /\ (~IsWeekend(today) /\ clock > closing) =>
                   tag = "after_close" /\ dates # <<>> /\ dates[1] = today
            /\ (~IsWeekend(today) /\ opening <= clock /\ clock <= closing) =>
                   tag = "open" /\ dates # <<>> /\ dates[1] = today

\* the classifier was called at exactly the closing time of Titu (18:45) on
\* a weekday, and at exactly 11:30
C12_Witness ==
    /\ probe.fn = "determine_command_scenario"
    /\ probe.arg[1] = "titu"
    /\ ~IsWeekend(DateOf(probe.arg[2]))
    /\ TimeOf(probe.arg[2]) = TITU_CLOSE_TIME
    /\ probe.res[1] = "open"

\* the list of dates a call of build_candidate_dates or of
\* determine_command_scenario returned
ProbedDates ==
    IF probe.fn = "build_candidate_dates" THEN probe.res[1]
    ELSE IF probe.fn = "determine_command_scenario" THEN probe.res[2]
    ELSE <<>>

\* C13: no Saturday or Sunday is in a list returned by build_candidate_dates
\* or determine_command_scenario, the fallback's list included.
C13_WeekendExclusion ==
    \A i \in 1..Len(ProbedDates) : ~IsWeekend(ProbedDates[i])

\* build_candidate_dates was called on a Sunday with max_entries = 0: the
\* walk collected nothing and the fallback gave the list
C13_Witness ==
    /\ probe.fn = "build_candidate_dates"
    /\ weekday(probe.arg[1]) = 6
    /\ probe.arg[3] = 0
    /\ Len(probe.res[1]) = 1

\* C14: build_candidate_dates takes at most 21 backward steps and returns at
\* least one date.
C14_FallbackTermination ==
    probe.fn = "build_candidate_dates" =>
        /\ probe.res[2] <= 21
        /\ Len(probe.res[1]) >= 1

\* a call that asked for more weekdays than 21 days hold: the walk stopped
\* at its 21st step
C14_Witness ==
    /\ probe.fn = "build_candidate_dates"
    /\ probe.res[2] = 21
    /\ Len(probe.res[1]) < probe.arg[3]

\* C15 as stated: with the default maximum the list never has more than 5
\* entries, today included or not.
C15_AtMostFiveEntries ==
    /\ (probe.fn = "build_candidate_dates" /\ probe.arg[3] = 5) =>
           Len(probe.res[1]) <= 5
    /\ probe.fn = "determine_command_scenario" => Len(probe.res[2]) <= 5

\* the number of dates of a list, and of its dates other than d
CountOthers(dates, d) == Cardinality({i \in 1..Len(dates) : dates[i] # d})

\* C15 as amended: with the default maximum the list holds at most 5
\* weekdays before today, and today in addition to them when today is
\* included and a weekday: at most 5 entries without today, at most 6 with.
C15_AtMostFivePriorWeekdays ==
    /\ (probe.fn = "build_candidate_dates" /\ probe.arg[3] = 5) =>
           /\ CountOthers(probe.res[1], probe.arg[1]) <= 5
           /\ Len(probe.res[1]) <=
                  (IF probe.arg[2] /\ ~IsWeekend(probe.arg[1]) THEN 6 ELSE 5)
    /\ probe.fn = "determine_command_scenario" =>
           /\ CountOthers(probe.res[2], DateOf(probe.arg[2])) <= 5
           /\ Len(probe.res[2]) <=
                  (IF probe.res[1] \in {"open", "after_close"} THEN 6 ELSE 5)

\* today and five earlier weekdays
C15_Witness ==
    /\ probe.fn = "build_candidate_dates"
    /\ probe.arg[3] = 5
    /\ Len(probe.res[1]) = 6
    /\ probe.res[1][1] = probe.arg[1]

\* an instant at 11:30 of a weekday
IsWeekdayOpening(x) == x % 86400 = 11 * 3600 + 30 * 60 /\ ~IsWeekend(x \div 86400)

\* C16: the initial target is at 11:30, on a weekday, strictly later than
\* the reference, and no earlier instant has these three properties.
C16_InitialTarget ==
    probe.fn = "get_initial_auto_post_time" =>
        LET reference == probe.arg[1]
            target == probe.res[1]
        IN  /\ IsWeekdayOpening(target)
            /\ target > reference
            /\ \A d \in DateOf(reference)..DateOf(target) :
                   LET x == d * 86400 + 11 * 3600 + 30 * 60
                   IN  (IsWeekdayOpening(x) /\ x > reference) => x >= target

\* the reference is exactly 11:30 of a Friday: the target is Monday's 11:30
C16_Witness ==
    /\ probe.fn = "get_initial_auto_post_time"
    /\ weekday(DateOf(probe.arg[1])) = 4
    /\ TimeOf(probe.arg[1]) = OPEN_TIME
    /\ probe.res[1] = probe.arg[1] + 3 * DaySeconds

=============================================================================
